---- MODULE Spec2Model ----
(***************************************************************************)
(* Daily-PC-Component-prices: the search crawler (pagination driver,       *)
(* ingestion/upsert engine, crawl state machine) and the single-URL        *)
(* scraper, as state machines over the persisted tables.                   *)
(*                                                                         *)
(* Prices are whole currency units (integers); priceChangePercent is kept  *)
(* in hundredths of a percent, so round(x, 2) is a rounding to an integer. *)
(* Dates are day numbers. Row ids (uuid4 in the code) are the row's index  *)
(* in its table.                                                           *)
(***************************************************************************)
EXTENDS Integers, Sequences, FiniteSets, TLC

VARIABLES
    products,   \* table products: sequence of Product rows, id = index
    history,    \* table price_history: sequence of PriceHistory rows
    sources,    \* table scrape_urls: SourceIds -> ScrapeURL row
    stores,     \* table stores: StoreIds -> Store row
    configs,    \* table search_configs: ConfigIds -> SearchConfig row
    today,      \* date.today()
    queue,      \* messages in the task queue, per config id or source id
    workers,    \* Workers -> the scrape_search_config execution a worker is in
    run,        \* one call of scrape_all_pages: its arguments and local variables
    lastOp      \* the last call made: its name, arguments and return value

vars == <<products, history, sources, stores, configs, today, queue, workers, run, lastOp>>

----------------------------------------------------------------------------
(* Bounds of the model *)

MaxDay == 2
MaxHistory == 3
MaxPage == 3
MaxQueue == 1
MaxFailingItem == 2
MaxJobs == 2
MaxErrorCount == 6
MaxPriceLen == 4

(* Program constants *)

ErrorThreshold == 5

None == "None"

\* the None of SearchConfig.total_pages_found (a page total is 0 or more)
NoPageTotal == -1

\* the None that save_search_result and scrape_single_url return in place of a
\* product id (ids are row indexes, from 1)
NoProductId == 0
\* the None that page.goto returns in place of a response
NoResponse == 0
\* the None that parse_price and parse_shopee_price return in place of a price
NoPrice == -1

----------------------------------------------------------------------------
(* Input domains *)

SourceIds == {"src1"}
StoreIds == {"s1", "s3"}
ConfigIds == {"c1"}
Workers == {"w1", "w2"}

\* Store.name values; `"lazada" in store_name` and `"shopee" in store_name`
\* (search_task.py lines 175, 177) are membership in these sets
StoreNames == {"Lazada Philippines", "PC Hub"}
LazadaNames == {"Lazada Philippines"}
ShopeeNames == {"Shopee Philippines"}

\* SearchResult values handed to save_search_result (title, price, product_url)
SearchResults ==
    { [title |-> "GPU A", price |-> 100, product_url |-> "u1"],
      [title |-> "GPU A", price |-> 80,  product_url |-> "u1"],
      [title |-> "CPU B", price |-> 3,   product_url |-> "u2"],
      [title |-> "",      price |-> 100, product_url |-> "u1"],
      [title |-> "GPU A", price |-> 0,   product_url |-> "u1"],
      [title |-> "CPU B", price |-> -5,  product_url |-> "u2"],
      [title |-> "GPU A", price |-> 100, product_url |-> ""] }

\* ScrapedData values returned by BaseScraper.scrape_with_delay; a price of -1
\* stands for price = None (extract_price drops the sign: no price is negative)
ScrapedDatas ==
    { [name |-> "GPU A", price |-> 0,  currency |-> "USD", error |-> None],
      [name |-> None, price |-> -1, currency |-> "USD",
       error |-> "Failed to fetch page"] }

----------------------------------------------------------------------------
(* round(change, 2): n / p in hundredths, to the nearest integer, ties to even *)

Abs(x) == IF x < 0 THEN -x ELSE x

RoundDiv(n, p) ==
    LET nn == IF p < 0 THEN -n ELSE n
        pp == Abs(p)
        q  == nn \div pp
        r  == nn % pp
    IN  IF 2 * r < pp THEN q
        ELSE IF 2 * r > pp THEN q + 1
        ELSE IF q % 2 = 0 THEN q ELSE q + 1

----------------------------------------------------------------------------
(* Queries *)

\* faulty variant: the lookup compares the product's name with the url
ProductsByName(ps, url) == {i \in DOMAIN ps : ps[i].name = url}

\* select(Product).where(Product.url == url)
ProductsByUrl(ps, url) == {i \in DOMAIN ps : ps[i].url = url}

TodayEntries(h, pid, d) ==
    {i \in DOMAIN h : h[i].product_id = pid /\ h[i].recorded_date = d}

\* faulty variant: today's entry is not excluded
PreviousEntriesOnOrBefore(h, pid, d) ==
    LET E == {i \in DOMAIN h : h[i].product_id = pid /\ h[i].recorded_date <= d}
    IN  {i \in E : \A j \in E : h[j].recorded_date <= h[i].recorded_date}

\* WHERE recorded_date < today ORDER BY recorded_date DESC LIMIT 1: the rows
\* the query may return (the order among rows of one date is unspecified)
PreviousEntries(h, pid, d) ==
    LET E == {i \in DOMAIN h : h[i].product_id = pid /\ h[i].recorded_date < d}
    IN  {i \in E : \A j \in E : h[j].recorded_date <= h[i].recorded_date}

\* the values calculate_price_change may return
calculate_price_change(h, current_price, pid, d) ==
    IF PreviousEntries(h, pid, d) = {} THEN {0}
    ELSE { IF h[i].price = 0 THEN 0
           ELSE RoundDiv((current_price - h[i].price) * 10000, h[i].price)
           : i \in PreviousEntries(h, pid, d) }

----------------------------------------------------------------------------
(* save_search_result *)

\* line 85: `not x` is true of "" and of 0
ItemAccepted(result) ==
    ~(result.title = "" \/ result.price = 0 \/ result.product_url = "")

\* faulty variant: the update clears the brand
UpdatedProductNoBrand(p, result, d, price_change) ==
    [p EXCEPT !.name = result.title,
              !.current_price = result.price,
              !.scrape_date = d,
              !.currency = "PHP",
              !.brand = None,
              !.price_change = price_change]

\* lines 96-112
UpdatedProduct(p, result, d, price_change) ==
    [p EXCEPT !.name = result.title,
              !.current_price = result.price,
              !.scrape_date = d,
              !.currency = "PHP",
              !.price_change = price_change]

\* faulty variant: a new product is given the change of a price that rose from nothing
NewProductFullChange(result, store_id, category, d) ==
    [ url |-> result.product_url, name |-> result.title,
      store_id |-> store_id, category |-> category, brand |-> None,
      current_price |-> result.price, currency |-> "PHP",
      price_change |-> 10000, scrape_date |-> d ]

\* lines 115-128; price_change takes the column default 0.0
NewProduct(result, store_id, category, d) ==
    [ url |-> result.product_url, name |-> result.title,
      store_id |-> store_id, category |-> category, brand |-> None,
      current_price |-> result.price, currency |-> "PHP",
      price_change |-> 0, scrape_date |-> d ]

NewSearchHistory(pid, result, d) ==
    [ product_id |-> pid, price |-> result.price, currency |-> "USD",
      recorded_date |-> d, scrape_source |-> None ]

\* faulty variant: no lookup of today's entry
InsertHistoryAlways(h, pid, result, d) ==
    { Append(h, NewSearchHistory(pid, result, d)) }

\* lines 133-153: the histories the upsert may leave
UpsertHistory(h, pid, result, d) ==
    IF TodayEntries(h, pid, d) = {}
    THEN { Append(h, NewSearchHistory(pid, result, d)) }
    ELSE { [h EXCEPT ![i].price = result.price] : i \in TodayEntries(h, pid, d) }

\* lines 91-131: the (products, product_id) pairs the product upsert may leave
UpsertProduct(ps, h, result, store_id, category, d) ==
    IF ProductsByUrl(ps, result.product_url) # {}
    THEN UNION { { [products |-> [ps EXCEPT ![i] = UpdatedProduct(ps[i], result, d, pc)],
                    product_id |-> i]
                   : pc \in calculate_price_change(h, result.price, i, d) }
                 : i \in ProductsByUrl(ps, result.product_url) }
    ELSE { [products |-> Append(ps, NewProduct(result, store_id, category, d)),
            product_id |-> Len(ps) + 1] }

\* the outcomes of one call: the tables it leaves and the value it returns
save_search_result(ps, h, result, store_id, category, d) ==
    IF ~ItemAccepted(result)
    THEN { [products |-> ps, history |-> h, ret |-> NoProductId] }
    ELSE UNION { { [products |-> u.products, history |-> hh, ret |-> u.product_id]
                   : hh \in UpsertHistory(h, u.product_id, result, d) }
                 : u \in UpsertProduct(ps, h, result, store_id, category, d) }

----------------------------------------------------------------------------
(* scrape_single_url *)

NewScrapedProduct(src, result, d) ==
    [ url |-> src.url, name |-> result.name,
      store_id |-> src.store_id, category |-> src.category, brand |-> src.brand,
      current_price |-> result.price, currency |-> result.currency,
      price_change |-> 0, scrape_date |-> d ]

\* lines 109-116: currency is not among the fields written
RescrapedProduct(p, result, d, price_change) ==
    [p EXCEPT !.name = result.name,
              !.current_price = result.price,
              !.price_change = price_change,
              !.scrape_date = d]

NewScrapedHistory(pid, src, result, d) ==
    [ product_id |-> pid, price |-> result.price, currency |-> result.currency,
      recorded_date |-> d, scrape_source |-> src.url ]

\* lines 82-89
\* faulty variant: the breaker trips one failure late
MarkErrorLate(src, error) ==
    [src EXCEPT !.last_error = error,
                !.error_count = @ + 1,
                !.is_active = IF src.error_count + 1 > ErrorThreshold THEN FALSE ELSE @]

MarkError(src, error) ==
    [src EXCEPT !.last_error = error,
                !.error_count = @ + 1,
                !.is_active = IF src.error_count + 1 >= ErrorThreshold THEN FALSE ELSE @]

\* faulty variant: a success switches the source back on
MarkSuccessReactivating(src) ==
    [src EXCEPT !.last_error = None, !.error_count = 0, !.is_active = TRUE]

\* lines 150-154
MarkSuccess(src) == [src EXCEPT !.last_error = None, !.error_count = 0]

\* lines 93-148: the outcomes of a scrape that extracted name and price
ScrapedUpsert(ps, h, src, result, d) ==
    IF ProductsByUrl(ps, src.url) # {}
    THEN UNION { { [products |-> [ps EXCEPT ![i] = RescrapedProduct(ps[i], result, d, pc)],
                    history |-> Append(h, NewScrapedHistory(i, src, result, d)),
                    ret |-> i]
                   : pc \in calculate_price_change(h, result.price, i, d) }
                 : i \in ProductsByUrl(ps, src.url) }
    ELSE { [products |-> Append(ps, NewScrapedProduct(src, result, d)),
            history |-> Append(h, NewScrapedHistory(Len(ps) + 1, src, result, d)),
            ret |-> Len(ps) + 1] }

----------------------------------------------------------------------------
(* The ingestion engine and the single-URL scraper over the tables *)

\* whether the product of this url has a price_history row dated d
HasEntryOn(ps, h, url, d) ==
    \E i \in ProductsByUrl(ps, url) : TodayEntries(h, i, d) # {}

IdleLoop ==
    [ max_pages |-> 0, start_page |-> 0, current_page |-> 0, all_results |-> << >>,
      done |-> TRUE, log |-> << >>, callbacks |-> << >> ]

\* a Celery worker process with no task; config and store hold the
\* SearchConfigData and StoreData snapshots of the task it executes, browser
\* the state of the browser of the scraper object the execution created
IdleWorker ==
    [ pc |-> "idle", config_id |-> None, config |-> None, store |-> None,
      pages_scraped |-> 0, loop |-> IdleLoop, browser |-> "none" ]

InitTables ==
    /\ products = << >>
    /\ history = << >>
    /\ sources = [s \in SourceIds |->
                    [ url |-> "u1", store_id |-> "s3", category |-> "gpu",
                      brand |-> "b1", is_active |-> TRUE, error_count |-> 0,
                      last_error |-> None ]]
    /\ stores = [s \in StoreIds |->
                    [ name |-> IF s = "s1" THEN "Lazada Philippines" ELSE "Newegg" ]]
    /\ today = 0
    /\ queue = [k \in ConfigIds \cup SourceIds |-> 0]
    /\ workers = [w \in Workers |-> IdleWorker]
    /\ lastOp = [op |-> "init"]

\* a SearchConfig row as create_search_config stores it
NewConfig(store_id, category, max_pages) ==
    [ store_id |-> store_id, category |-> category, max_pages |-> max_pages,
      last_page_scraped |-> 0, total_pages_found |-> NoPageTotal,
      total_products_found |-> 0,
      is_active |-> TRUE, status |-> "pending", last_error |-> None ]

InitIngest ==
    /\ InitTables
    /\ configs = [c \in ConfigIds |-> NewConfig("s1", "gpu", 10)]
    /\ run = IdleLoop

crawlVars == <<stores, configs, queue, workers, run>>

SaveSearchResult(result, store_id, category) ==
    /\ \E out \in save_search_result(products, history, result, store_id, category, today) :
          /\ Len(out.history) <= MaxHistory
          /\ products' = out.products
          /\ history' = out.history
          /\ lastOp' = [op |-> "save_search_result", result |-> result,
                        url |-> result.product_url, price |-> result.price,
                        existed |-> ProductsByUrl(products, result.product_url) # {},
                        had_today |-> HasEntryOn(products, history, result.product_url, today),
                        ret |-> out.ret, store_id |-> store_id, category |-> category]
    /\ UNCHANGED <<sources, today, crawlVars>>

\* scrape_single_url lines 82-156 for a source that exists and whose store
\* exists; before is the ScrapeURL row as the task loaded it
ScrapeSingleUrlBody(s, result) ==
    IF result.error # None
    THEN /\ sources' = [sources EXCEPT ![s] = MarkError(@, result.error)]
         /\ lastOp' = [op |-> "scrape_single_url", result |-> result,
                       url |-> sources[s].url, price |-> result.price,
                       existed |-> ProductsByUrl(products, sources[s].url) # {},
                       had_today |-> HasEntryOn(products, history, sources[s].url, today),
                       ret |-> NoProductId, source_id |-> s, before |-> sources[s]]
         /\ UNCHANGED <<products, history>>
    ELSE \E out \in ScrapedUpsert(products, history, sources[s], result, today) :
            /\ Len(out.history) <= MaxHistory
            /\ products' = out.products
            /\ history' = out.history
            /\ sources' = [sources EXCEPT ![s] = MarkSuccess(@)]
            /\ lastOp' = [op |-> "scrape_single_url", result |-> result,
                          url |-> sources[s].url, price |-> result.price,
                          existed |-> ProductsByUrl(products, sources[s].url) # {},
                          had_today |-> HasEntryOn(products, history, sources[s].url, today),
                          ret |-> out.ret, source_id |-> s, before |-> sources[s]]

\* scrape_single_url called for source s
ScrapeSingleUrl(s, result) ==
    /\ ScrapeSingleUrlBody(s, result)
    /\ UNCHANGED <<today, crawlVars>>

NextDay ==
    /\ today < MaxDay
    /\ today' = today + 1
    /\ lastOp' = [op |-> "next_day"]
    /\ UNCHANGED <<products, history, sources, crawlVars>>

NextIngest ==
    \/ \E result \in SearchResults : SaveSearchResult(result, "s1", "gpu")
    \/ \E s \in SourceIds, result \in ScrapedDatas :
          /\ result.error = None
          /\ ScrapeSingleUrl(s, result)
    \/ NextDay

SpecIngest == InitIngest /\ [][NextIngest]_vars

----------------------------------------------------------------------------
(* The storefront: what search_products may return for a page *)

Urls == << "p1", "p2", "p3", "p4", "p5", "p6", "p7", "p8", "p9", "p10",
           "p11", "p12", "p13", "p14", "p15", "p16", "p17", "p18" >>

GoodItem(url) == [title |-> "GPU A", price |-> 100, product_url |-> url]

\* page 1 lists 10 items, page 2 lists 8, every later page lists one item seen
\* on page 1 and two items save_search_result skips
PageItems(p) ==
    IF p = 1 THEN [i \in 1..10 |-> GoodItem(Urls[i])]
    ELSE IF p = 2 THEN [i \in 1..8 |-> GoodItem(Urls[10 + i])]
    ELSE << GoodItem(Urls[1]),
            [title |-> "", price |-> 100, product_url |-> "p1"],
            [title |-> "GPU A", price |-> 0, product_url |-> "p2"] >>

\* SearchPageResult values: a page with or without a next page, a navigation
\* failure (no products), and an exception raised after products were parsed
PageResults(p) ==
    { [page_number |-> p, products |-> PageItems(p), has_next_page |-> b, error |-> None]
      : b \in BOOLEAN }
    \cup { [page_number |-> p, products |-> << >>, has_next_page |-> FALSE,
            error |-> "Failed to load search page"],
           [page_number |-> p, products |-> PageItems(p), has_next_page |-> FALSE,
            error |-> "Timeout 30000ms exceeded"] }

----------------------------------------------------------------------------
(* PlaywrightBaseScraper.scrape_all_pages *)

\* lines 225-226
StartLoop(max_pages, start_page) ==
    [ max_pages |-> max_pages, start_page |-> start_page, current_page |-> start_page,
      all_results |-> << >>, done |-> FALSE, log |-> << >>, callbacks |-> << >> ]

\* faulty variant: the limit is compared with >
PastMaxPages(max_pages, current_page) == max_pages > 0 /\ current_page > max_pages

\* line 248
ReachedMaxPages(max_pages, current_page) == max_pages > 0 /\ current_page >= max_pages

\* faulty variant: the page's products are collected before the error is looked at
CollectThenCheck(loop, result) ==
    [loop EXCEPT !.all_results = @ \o result.products,
                 !.done = TRUE,
                 !.log = Append(@, result)]

\* faulty variant: a failed page is skipped and the crawl goes on
PageFailedSkipping(loop, result) ==
    [loop EXCEPT !.current_page = @ + 1, !.log = Append(@, result)]

\* lines 233-235: the page failed
PageFailed(loop, result) ==
    [loop EXCEPT !.done = TRUE, !.log = Append(@, result)]

\* lines 231-254: one iteration of the loop, given what search_products returned;
\* log (the results fetched) and callbacks (the page numbers handed to the
\* callback) record what the iteration did
scrape_all_pages_step(loop, result) ==
    IF result.error # None
    THEN PageFailed(loop, result)
    ELSE LET collected == [loop EXCEPT !.all_results = @ \o result.products,
                                       !.callbacks = Append(@, loop.current_page),
                                       !.log = Append(@, result)]
         IN  IF ~result.has_next_page
             THEN [collected EXCEPT !.done = TRUE]
             ELSE IF ReachedMaxPages(loop.max_pages, loop.current_page)
                  THEN [collected EXCEPT !.done = TRUE]
                  ELSE [collected EXCEPT !.current_page = @ + 1]

----------------------------------------------------------------------------
(* scrape_all_pages alone, from any max_pages and start_page *)

InitPages ==
    /\ InitTables
    /\ configs = [c \in ConfigIds |-> NewConfig("s1", "gpu", 10)]
    /\ \E max_pages \in 0..MaxPage, start_page \in 1..(MaxPage + 1) :
          run = StartLoop(max_pages, start_page)

\* the model stops an unlimited crawl (max_pages = 0) after page MaxPage + 1
SearchProducts ==
    /\ ~run.done
    /\ run.current_page <= MaxPage + 1
    /\ \E result \in PageResults(run.current_page) :
          /\ run' = scrape_all_pages_step(run, result)
          /\ lastOp' = [op |-> "search_products", page |-> run.current_page]
    /\ UNCHANGED <<products, history, sources, stores, configs, today, queue, workers>>

NextPages == SearchProducts

SpecPages == InitPages /\ [][NextPages]_vars

----------------------------------------------------------------------------
(* The crawl state machine: search_configs routes, Celery queue and workers *)

\* faulty variant: every crawl starts at page 1
start_page_first(config) == 1

\* search_task.py line 194
start_page(config) ==
    IF config.last_page_scraped > 0 THEN config.last_page_scraped + 1 ELSE 1

\* lines 175-181: which stores scrape_search_config_async has a scraper for
KnownStoreType(store_name) == store_name \in LazadaNames \cup ShopeeNames

\* line 201: the session the items are saved in. products and history are
\* the tables as the session sees them (its own uncommitted writes included),
\* active is FALSE once a flush has failed and the session has not been
\* rolled back, position counts the items handed to save_search_result and
\* failed_item is the position of the item that raised, 0 if none did
OpenSession(ps, h) ==
    [ products |-> ps, history |-> h, saved_count |-> 0, errors |-> << >>,
      active |-> TRUE, position |-> 0, failed_item |-> 0 ]

\* save_search_result returned: lines 209-210
ItemSaved(s, o) ==
    [s EXCEPT !.products = o.products,
              !.history = o.history,
              !.saved_count = IF o.ret # NoProductId THEN @ + 1 ELSE @]

\* lines 213-215: the error is logged and appended to results["errors"]
ItemFailed(s, error) ==
    [s EXCEPT !.errors = Append(@, error),
              !.failed_item = IF @ = 0 THEN s.position ELSE @]

\* lines 213-215 after session.flush() (line 130) or an autoflush raised: the
\* session has rolled its transaction back to the committed tables and refuses
\* every statement until rollback() is called, which the loop never does (on
\* PostgreSQL, database.py line 8, any failed statement aborts the transaction)
FlushFailed(s, committed) ==
    [ItemFailed(s, "IntegrityError") EXCEPT !.products = committed.products,
                                            !.history = committed.history,
                                            !.active = FALSE]

\* lines 202-215: the items are saved one after the other in one session;
\* saved_count counts the calls that returned a product id. One of the first
\* MaxFailingItem items may meet a persistence error
RECURSIVE save_all(_, _, _, _, _)
save_all(s, items, config, d, committed) ==
    IF items = << >> THEN {s}
    ELSE LET item == Head(items)
             at == [s EXCEPT !.position = @ + 1]
         IN  IF ~ItemAccepted(item)
             THEN save_all(at, Tail(items), config, d, committed)
             ELSE IF ~s.active
             THEN save_all(ItemFailed(at, "PendingRollbackError"), Tail(items),
                           config, d, committed)
             ELSE UNION { save_all(ItemSaved(at, o), Tail(items), config, d, committed)
                          : o \in save_search_result(s.products, s.history, item,
                                                     config.store_id, config.category, d) }
                  \cup ( IF at.position <= MaxFailingItem
                         THEN save_all(FlushFailed(at, committed), Tail(items),
                                       config, d, committed)
                         ELSE {} )

\* PlaywrightBaseScraper.close_browser, called by __aexit__
close_browser(browser) == IF browser = "open" THEN "closed" ELSE browser

\* lines 217-225
CompletedConfig(config, saved_count, pages_scraped) ==
    [config EXCEPT !.status = "completed",
                   !.total_products_found = saved_count,
                   !.last_page_scraped = pages_scraped,
                   !.last_error = None]

\* faulty variant: the error handler also drops the checkpoint
FailedConfigResetting(config, error) ==
    [config EXCEPT !.status = "error", !.last_error = error,
                   !.last_page_scraped = 0, !.total_products_found = 0]

\* lines 237-243
FailedConfig(config, error) ==
    [config EXCEPT !.status = "error", !.last_error = error]

\* the highest page the callback was called for, 0 when it never was
HighestPage(loop) ==
    IF loop.callbacks = << >> THEN 0 ELSE loop.callbacks[Len(loop.callbacks)]

\* routes/search_configs.py trigger_scrape_config: 404 for a missing
\* configuration, 400 for an inactive one, else the task is queued
TriggerScrapeConfig(c) ==
    /\ queue[c] < MaxQueue
    /\ IF c \notin DOMAIN configs
       THEN /\ lastOp' = [op |-> "trigger_scrape_config", config_id |-> c, http |-> 404]
            /\ UNCHANGED queue
       ELSE IF ~configs[c].is_active
       THEN /\ lastOp' = [op |-> "trigger_scrape_config", config_id |-> c, http |-> 400]
            /\ UNCHANGED queue
       ELSE /\ queue' = [queue EXCEPT ![c] = @ + 1]
            /\ lastOp' = [op |-> "trigger_scrape_config", config_id |-> c, http |-> 200]
    /\ UNCHANGED <<products, history, sources, stores, configs, today, workers, run>>

\* scrape_all_search_configs: one task per active configuration
ScrapeAllSearchConfigs ==
    /\ \A c \in DOMAIN configs : configs[c].is_active => queue[c] < MaxQueue
    /\ queue' = [k \in DOMAIN queue |->
                    IF k \in DOMAIN configs /\ configs[k].is_active
                    THEN queue[k] + 1 ELSE queue[k]]
    /\ lastOp' = [op |-> "scrape_all_search_configs"]
    /\ UNCHANGED <<products, history, sources, stores, configs, today, workers, run>>

\* routes/stores.py update_store: the name is whatever the request carries
UpdateStore(s, name) ==
    /\ IF s \in DOMAIN stores
       THEN /\ stores' = [stores EXCEPT ![s].name = name]
            /\ lastOp' = [op |-> "update_store", store_id |-> s, http |-> 200]
       ELSE /\ UNCHANGED stores
            /\ lastOp' = [op |-> "update_store", store_id |-> s, http |-> 404]
    /\ UNCHANGED <<products, history, sources, configs, today, queue, workers, run>>

\* faulty variant: is_active is not looked at
RejectionIgnoringActive(cfgs, strs, c) ==
    IF c \notin DOMAIN cfgs
    THEN [status |-> "error", message |-> "Config not found"]
    ELSE IF cfgs[c].store_id \notin DOMAIN strs
    THEN [status |-> "error", message |-> "Store not found"]
    ELSE [status |-> "started", message |-> None]

\* scrape_search_config lines 259-269: what the task returns before it starts
\* a crawl, status "started" when it returns nothing there
Rejection(cfgs, strs, c) ==
    IF c \notin DOMAIN cfgs
    THEN [status |-> "error", message |-> "Config not found"]
    ELSE IF ~cfgs[c].is_active
    THEN [status |-> "skipped", message |-> "Config is inactive"]
    ELSE IF cfgs[c].store_id \notin DOMAIN strs
    THEN [status |-> "error", message |-> "Store not found"]
    ELSE [status |-> "started", message |-> None]

\* scrape_search_config up to the call of run_async: a worker takes a task
\* from the queue; the model takes no task whose first page is past MaxPage + 1
StartTask(w, c) ==
    /\ workers[w].pc = "idle"
    /\ queue[c] > 0
    /\ c \in DOMAIN configs => configs[c].last_page_scraped <= MaxPage
    /\ queue' = [queue EXCEPT ![c] = @ - 1]
    /\ IF Rejection(configs, stores, c).status # "started"
       THEN /\ lastOp' = [op |-> "scrape_search_config", config_id |-> c,
                          status |-> Rejection(configs, stores, c).status,
                          message |-> Rejection(configs, stores, c).message,
                          was_running |-> FALSE]
            /\ UNCHANGED <<configs, workers>>
       ELSE /\ configs' = [configs EXCEPT ![c].status = "running"]
            /\ workers' = [workers EXCEPT ![w] =
                             [ pc |-> "started", config_id |-> c,
                               config |-> [ store_id |-> configs[c].store_id,
                                            category |-> configs[c].category,
                                            max_pages |-> configs[c].max_pages,
                                            last_page_scraped |-> configs[c].last_page_scraped ],
                               store |-> stores[configs[c].store_id],
                               pages_scraped |-> 0, loop |-> IdleLoop, browser |-> "none" ]]
            /\ lastOp' = [op |-> "scrape_search_config", config_id |-> c,
                          status |-> "started", message |-> None,
                          was_running |-> (configs[c].status = "running")]
    /\ UNCHANGED <<products, history, sources, stores, today, run>>

\* scrape_search_config_async lines 164-196: the scraper is chosen and the
\* pagination loop entered, or the function returns for an unknown store
RunAsync(w) ==
    /\ workers[w].pc = "started"
    /\ IF KnownStoreType(workers[w].store.name)
       THEN /\ workers' = [workers EXCEPT ![w].pc = "scraping",
                              ![w].browser = "open",
                              ![w].loop = StartLoop(workers[w].config.max_pages,
                                                    start_page(workers[w].config))]
            /\ lastOp' = [op |-> "scrape_all_pages", config_id |-> workers[w].config_id]
       ELSE /\ workers' = [workers EXCEPT ![w] = IdleWorker]
            /\ lastOp' = [op |-> "crawl_returned", config_id |-> workers[w].config_id,
                          saved_count |-> 0, pages_scraped |-> 0,
                          errors |-> << "Unknown store type" >>, failed_item |-> 0,
                          browser |-> workers[w].browser]
    /\ UNCHANGED <<products, history, sources, stores, configs, today, queue, run>>

\* one iteration of scrape_all_pages inside the execution; on_page_complete
\* (lines 186-188) keeps the number of the last page handed to it
FetchPage(w) ==
    /\ workers[w].pc = "scraping"
    /\ workers[w].browser = "open"
    /\ ~workers[w].loop.done
    /\ \E result \in PageResults(workers[w].loop.current_page) :
          LET loop == scrape_all_pages_step(workers[w].loop, result)
          IN  workers' = [workers EXCEPT ![w].loop = loop,
                                         ![w].pages_scraped =
                                             IF Len(loop.callbacks) > Len(workers[w].loop.callbacks)
                                             THEN workers[w].loop.current_page ELSE @]
    /\ lastOp' = [op |-> "search_products", config_id |-> workers[w].config_id]
    /\ UNCHANGED <<products, history, sources, stores, configs, today, queue, run>>

\* lines 198-243 once the pagination loop has returned: the items are saved,
\* the configuration is updated and the session committed; when the session
\* has become unusable, session.get (line 218) raises, nothing is committed
\* and the except block records the error
Finalize(w) ==
    /\ workers[w].pc = "scraping"
    /\ workers[w].loop.done
    /\ \E out \in save_all(OpenSession(products, history), workers[w].loop.all_results,
                           workers[w].config, today,
                           [products |-> products, history |-> history]) :
          IF out.active
          THEN /\ products' = out.products
               /\ history' = out.history
               /\ configs' = IF workers[w].config_id \in DOMAIN configs
                             THEN [configs EXCEPT ![workers[w].config_id] =
                                     CompletedConfig(@, out.saved_count, workers[w].pages_scraped)]
                             ELSE configs
               /\ lastOp' = [op |-> "crawl_returned", config_id |-> workers[w].config_id,
                             saved_count |-> out.saved_count,
                             pages_scraped |-> HighestPage(workers[w].loop),
                             errors |-> out.errors, failed_item |-> out.failed_item,
                             browser |-> close_browser(workers[w].browser)]
          ELSE /\ UNCHANGED <<products, history>>
               /\ configs' = IF workers[w].config_id \in DOMAIN configs
                             THEN [configs EXCEPT ![workers[w].config_id] =
                                     FailedConfig(@, "PendingRollbackError")]
                             ELSE configs
               /\ lastOp' = [op |-> "crawl_raised", config_id |-> workers[w].config_id,
                             pages_scraped |-> workers[w].pages_scraped,
                             errors |-> Append(out.errors, "PendingRollbackError"),
                             failed_item |-> out.failed_item,
                             browser |-> close_browser(workers[w].browser)]
    /\ workers' = [workers EXCEPT ![w] = IdleWorker]
    /\ UNCHANGED <<sources, stores, today, queue, run>>

\* lines 183-184 and 232-243: start_browser raises inside __aenter__, before
\* the browser is launched (launched = FALSE) or after it, in new_context,
\* add_init_script or new_page; the async with statement calls __aexit__ only
\* when __aenter__ has returned, so close_browser does not run
StartBrowserRaises(w) ==
    /\ workers[w].pc = "started"
    /\ KnownStoreType(workers[w].store.name)
    /\ \E launched \in BOOLEAN :
          LET error == IF launched THEN "Target closed" ELSE "Executable doesn't exist"
          IN  /\ configs' = IF workers[w].config_id \in DOMAIN configs
                            THEN [configs EXCEPT ![workers[w].config_id] = FailedConfig(@, error)]
                            ELSE configs
              /\ lastOp' = [op |-> "crawl_raised", config_id |-> workers[w].config_id,
                            pages_scraped |-> 0, errors |-> << error >>, failed_item |-> 0,
                            browser |-> IF launched THEN "open" ELSE "none"]
    /\ workers' = [workers EXCEPT ![w] = IdleWorker]
    /\ UNCHANGED <<products, history, sources, stores, today, queue, run>>

\* lines 232-243: an exception inside the async with block (the session
\* cannot commit); __aexit__ closes the browser
CrawlRaises(w) ==
    /\ workers[w].pc = "scraping"
    /\ configs' = IF workers[w].config_id \in DOMAIN configs
                  THEN [configs EXCEPT ![workers[w].config_id] =
                          FailedConfig(@, "OperationalError")]
                  ELSE configs
    /\ workers' = [workers EXCEPT ![w] = IdleWorker]
    /\ lastOp' = [op |-> "crawl_raised", config_id |-> workers[w].config_id,
                  pages_scraped |-> workers[w].pages_scraped,
                  errors |-> << "OperationalError" >>, failed_item |-> 0,
                  browser |-> close_browser(workers[w].browser)]
    /\ UNCHANGED <<products, history, sources, stores, today, queue, run>>

\* celery_app.py task_acks_late and task_reject_on_worker_lost: the task of a
\* worker process that dies is put back on the queue
WorkerLost(w) ==
    /\ workers[w].pc # "idle"
    /\ queue[workers[w].config_id] < MaxQueue
    /\ queue' = [queue EXCEPT ![workers[w].config_id] = @ + 1]
    /\ workers' = [workers EXCEPT ![w] = IdleWorker]
    /\ lastOp' = [op |-> "worker_lost", config_id |-> workers[w].config_id]
    /\ UNCHANGED <<products, history, sources, stores, configs, today, run>>

\* SearchConfigUpdate bodies sent to update_search_config (the fields set)
SearchConfigUpdates ==
    { [is_active |-> FALSE], [is_active |-> TRUE], [total_pages_found |-> 3] }

\* routes/search_configs.py lines 116-118: the provided fields are assigned
PatchedConfig(config, update) ==
    [f \in DOMAIN config |-> IF f \in DOMAIN update THEN update[f] ELSE config[f]]

\* update_search_config: 404 for a missing configuration
UpdateSearchConfig(c, update) ==
    /\ IF c \notin DOMAIN configs
       THEN /\ lastOp' = [op |-> "update_search_config", config_id |-> c, http |-> 404]
            /\ UNCHANGED configs
       ELSE /\ configs' = [configs EXCEPT ![c] = PatchedConfig(@, update)]
            /\ lastOp' = [op |-> "update_search_config", config_id |-> c, http |-> 200]
    /\ UNCHANGED <<products, history, sources, stores, today, queue, workers, run>>

\* faulty variant: the status is left as it was
ResetConfigKeepingStatus(config) ==
    [config EXCEPT !.last_page_scraped = 0,
                   !.total_pages_found = NoPageTotal,
                   !.total_products_found = 0,
                   !.last_error = None]

\* routes/search_configs.py lines 191-195
ResetConfig(config) ==
    [config EXCEPT !.last_page_scraped = 0,
                   !.total_pages_found = NoPageTotal,
                   !.total_products_found = 0,
                   !.status = "pending",
                   !.last_error = None]

\* reset_search_config: 404 for a missing configuration; before is the row
\* as the handler loaded it
ResetSearchConfig(c) ==
    /\ IF c \notin DOMAIN configs
       THEN /\ lastOp' = [op |-> "reset_search_config", config_id |-> c, http |-> 404]
            /\ UNCHANGED configs
       ELSE /\ configs' = [configs EXCEPT ![c] = ResetConfig(@)]
            /\ lastOp' = [op |-> "reset_search_config", config_id |-> c, http |-> 200,
                          before |-> configs[c]]
    /\ UNCHANGED <<products, history, sources, stores, today, queue, workers, run>>

\* delete_search_config
DeleteSearchConfig(c) ==
    /\ c \in DOMAIN configs
    /\ configs' = [k \in DOMAIN configs \ {c} |-> configs[k]]
    /\ lastOp' = [op |-> "delete_search_config", config_id |-> c]
    /\ UNCHANGED <<products, history, sources, stores, today, queue, workers, run>>

\* routes/stores.py delete_store: the handler does not look for rows that
\* reference the store
DeleteStore(s) ==
    /\ s \in DOMAIN stores
    /\ stores' = [k \in DOMAIN stores \ {s} |-> stores[k]]
    /\ lastOp' = [op |-> "delete_store", store_id |-> s]
    /\ UNCHANGED <<products, history, sources, configs, today, queue, workers, run>>

Init ==
    /\ InitTables
    /\ configs = [c \in ConfigIds |-> NewConfig("s1", "gpu", 2)]
    /\ run = IdleLoop

Next ==
    \/ \E c \in ConfigIds : TriggerScrapeConfig(c)
    \/ ScrapeAllSearchConfigs
    \/ \E name \in StoreNames : UpdateStore("s1", name)
    \/ \E w \in Workers, c \in ConfigIds : StartTask(w, c)
    \/ \E w \in Workers : RunAsync(w)
    \/ \E w \in Workers : StartBrowserRaises(w)
    \/ \E w \in Workers : FetchPage(w)
    \/ \E w \in Workers : Finalize(w)
    \/ \E w \in Workers : CrawlRaises(w)
    \/ \E w \in Workers : WorkerLost(w)

Spec == Init /\ [][Next]_vars

----------------------------------------------------------------------------
(* One worker and the administrative routes on configurations and stores *)

NextAdmin ==
    \/ \E c \in ConfigIds : TriggerScrapeConfig(c)
    \/ \E name \in StoreNames : UpdateStore("s1", name)
    \/ \E c \in ConfigIds : StartTask("w1", c)
    \/ RunAsync("w1")
    \/ FetchPage("w1")
    \/ Finalize("w1")
    \/ CrawlRaises("w1")
    \/ \E c \in ConfigIds, update \in SearchConfigUpdates : UpdateSearchConfig(c, update)
    \/ \E c \in ConfigIds : ResetSearchConfig(c)
    \/ \E c \in ConfigIds : DeleteSearchConfig(c)
    \/ DeleteStore("s1")

SpecAdmin == Init /\ [][NextAdmin]_vars

(***************************************************************************)
(* The daily single-URL scrape: scrape_all_products, the queued            *)
(* scrape_single_url jobs and the toggle route                             *)
(***************************************************************************)
\* scrape_all_products: one scrape_single_url message per active ScrapeURL
ScrapeAllProducts ==
    LET active_urls == {s \in SourceIds : sources[s].is_active}
    IN /\ \A s \in active_urls : queue[s] < MaxJobs
       /\ queue' = [k \in DOMAIN queue |-> IF k \in active_urls THEN queue[k] + 1 ELSE queue[k]]
       /\ lastOp' = [op |-> "scrape_all_products", total |-> Cardinality(active_urls)]
       /\ UNCHANGED <<products, history, sources, stores, configs, today, workers, run>>

\* a worker takes a scrape_single_url message for source s and runs the task
RunScrapeSingleUrl(s, result) ==
    /\ queue[s] > 0
    /\ result.error # None => sources[s].error_count < MaxErrorCount
    /\ queue' = [queue EXCEPT ![s] = @ - 1]
    /\ IF sources[s].store_id \notin DOMAIN stores
       THEN /\ lastOp' = [op |-> "scrape_single_url_rejected", source_id |-> s,
                          message |-> "Store not found"]
            /\ UNCHANGED <<products, history, sources>>
       ELSE ScrapeSingleUrlBody(s, result)
    /\ UNCHANGED <<stores, configs, today, workers, run>>

\* PATCH /scrape-urls/{id}/toggle
ToggleScrapeUrl(s) ==
    /\ sources' = [sources EXCEPT ![s].is_active = ~@]
    /\ lastOp' = [op |-> "toggle_scrape_url", source_id |-> s]
    /\ UNCHANGED <<products, history, stores, configs, today, queue, workers, run>>

NextSources ==
    \/ ScrapeAllProducts
    \/ \E s \in SourceIds, result \in ScrapedDatas : RunScrapeSingleUrl(s, result)
    \/ \E s \in SourceIds : ToggleScrapeUrl(s)

SpecSources == Init /\ [][NextSources]_vars

----------------------------------------------------------------------------
(* Claims about the ingestion engine, checked under SpecIngest *)

\* an Extracted Item that meets the stated preconditions of ingest
ValidItem(result) ==
    result.title # "" /\ result.price > 0 /\ result.product_url # ""

Ingested == lastOp.op \in {"save_search_result", "scrape_single_url"}

\* C1: after any sequence of search ingestions and single-URL scrapes there is
\* at most one Price History entry per (productId, recordedDate).
C1_OneEntryPerProductAndDate ==
    \A i, j \in DOMAIN history :
        (/\ history[i].product_id = history[j].product_id
         /\ history[i].recorded_date = history[j].recorded_date) => i = j

\* C2: a save_search_result of an item whose product already has an entry for
\* today leaves the number of Product and Price History rows unchanged and
\* overwrites the price of one entry of that date in place; every accepted
\* save_search_result leaves an entry for (product, today) holding the price
\* just ingested.
C2_SameDayReingestOverwrites ==
    [][ (lastOp'.op = "save_search_result" /\ lastOp'.ret # NoProductId) =>
          /\ \E i \in TodayEntries(history', lastOp'.ret, today) :
                history'[i].price = lastOp'.price
          /\ lastOp'.had_today =>
                /\ Len(products') = Len(products)
                /\ Len(history') = Len(history)
                /\ \E i \in TodayEntries(history, lastOp'.ret, today) :
                      /\ history'[i] = [history[i] EXCEPT !.price = lastOp'.price]
                      /\ \A j \in DOMAIN history : j # i => history'[j] = history[j]
      ]_vars

C2_Witness ==
    /\ lastOp.op = "save_search_result"
    /\ lastOp.ret # NoProductId
    /\ lastOp.had_today
    /\ \E i \in DOMAIN history :
          /\ history[i].product_id = lastOp.ret
          /\ history[i].recorded_date = today
          /\ history[i].price = 80
    /\ Len(history) = 1

\* C3: no two Product rows share a url; a save_search_result of a valid item
\* returns the id of the Product whose url is the item's url (the existing one
\* when the url was seen before, otherwise a newly created one); no step
\* deletes a Product or changes a Product's url.
C3_OneProductPerUrl ==
    [][ /\ \A i, j \in DOMAIN products' :
              products'[i].url = products'[j].url => i = j
        /\ Len(products') >= Len(products)
        /\ \A i \in DOMAIN products : products'[i].url = products[i].url
        /\ (lastOp'.op = "save_search_result" /\ ValidItem(lastOp'.result)) =>
              /\ lastOp'.ret \in DOMAIN products'
              /\ products'[lastOp'.ret].url = lastOp'.url
              /\ IF \E i \in DOMAIN products : products[i].url = lastOp'.url
                 THEN lastOp'.ret \in DOMAIN products /\ Len(products') = Len(products)
                 ELSE lastOp'.ret = Len(products) + 1 /\ Len(products') = Len(products) + 1
      ]_vars

C3_Witness ==
    /\ lastOp.op = "save_search_result"
    /\ ValidItem(lastOp.result)
    /\ lastOp.existed
    /\ lastOp.ret = 2
    /\ Len(products) = 2

\* C4: save_search_result of an item with an empty title, a price that is not
\* positive, or an empty product url returns None and changes no row.
C4_InvalidItemSkipped ==
    [][ (lastOp'.op = "save_search_result" /\ ~ValidItem(lastOp'.result)) =>
          /\ lastOp'.ret = NoProductId
          /\ UNCHANGED <<products, history>>
      ]_vars

\* C5: the first ingestion of a url that has no Product, by either scraper,
\* creates the Product with priceChangePercent = 0 (and a valid search item is
\* always ingested).
C5_FirstIngestionNeutral ==
    [][ /\ (lastOp'.op = "save_search_result" /\ ValidItem(lastOp'.result)) =>
              lastOp'.ret # NoProductId
        /\ (/\ lastOp'.op \in {"save_search_result", "scrape_single_url"}
            /\ lastOp'.ret # NoProductId
            /\ ~\E i \in DOMAIN products : products[i].url = lastOp'.url) =>
              /\ Len(products') = Len(products) + 1
              /\ lastOp'.ret = Len(products')
              /\ products'[lastOp'.ret].url = lastOp'.url
              /\ products'[lastOp'.ret].price_change = 0
      ]_vars

C5_Witness ==
    /\ Ingested
    /\ lastOp.ret # NoProductId
    /\ ~lastOp.existed
    /\ lastOp.ret = 2
    /\ products[2].price_change = 0
    /\ products[1].price_change # 0

\* C6: the priceChangePercent written on re-ingesting an existing Product is
\* taken against an entry of the greatest recordedDate strictly before today:
\* 0 when there is none or its price is 0, otherwise the nearest hundredth to
\* ((current - previous) / previous) * 100; previous 100, current 80 give -20.
C6_PriceChangeAgainstPreviousDay ==
    [][ (/\ lastOp'.op \in {"save_search_result", "scrape_single_url"}
         /\ lastOp'.ret # NoProductId
         /\ \E i \in DOMAIN products : products[i].url = lastOp'.url) =>
          LET pid == lastOp'.ret
              cur == lastOp'.price
              pc  == products'[pid].price_change
              E   == {i \in DOMAIN history : /\ history[i].product_id = pid
                                             /\ history[i].recorded_date < today}
          IN  IF E = {} THEN pc = 0
              ELSE \E i \in E :
                     /\ \A j \in E : history[j].recorded_date <= history[i].recorded_date
                     /\ history[i].price = 0 => pc = 0
                     /\ history[i].price # 0 =>
                           2 * Abs(pc * history[i].price - (cur - history[i].price) * 10000)
                             <= Abs(history[i].price)
                     /\ (history[i].price = 100 /\ cur = 80) => pc = -2000
      ]_vars

\* re-ingested at 80 with entries of two earlier days (80, then 100) and one of today
C6_Witness ==
    /\ lastOp.op = "save_search_result"
    /\ lastOp.existed
    /\ lastOp.had_today
    /\ lastOp.price = 80
    /\ today = 2
    /\ \E i, j \in DOMAIN history :
          /\ history[i].product_id = lastOp.ret /\ history[i].recorded_date = 0
          /\ history[i].price = 80
          /\ history[j].product_id = lastOp.ret /\ history[j].recorded_date = 1
          /\ history[j].price = 100
    /\ products[lastOp.ret].price_change = -2000


----------------------------------------------------------------------------
(* Claims about scrape_all_pages, checked under SpecPages *)

\* the items of a sequence of page results, in page order
RECURSIVE ItemsOf(_)
RECURSIVE PagesExtracted(_)
ItemsOf(results) ==
    IF results = << >> THEN << >>
    ELSE results[1].products \o ItemsOf(Tail(results))

\* C7: with max_pages = N > 0, whatever start_page and whatever the pages
\* return, scrape_all_pages fetches at most N pages, is finished once it has
\* fetched N, and until it is finished its next fetch can be taken
C7_AtMostMaxPagesFetches ==
    run.max_pages > 0 =>
        /\ Len(run.log) <= run.max_pages
        /\ Len(run.log) = run.max_pages => run.done
        /\ ~run.done => run.current_page <= MaxPage + 1

\* max_pages = 3 and has_next_page still true on the third page fetched
C7_Witness ==
    /\ run.max_pages = 3
    /\ Len(run.log) = 3
    /\ run.log[3].error = None
    /\ run.log[3].has_next_page
    /\ run.done

\* C8: a page result with error set ends the crawl: it is the last page
\* fetched, the callback was not called for it, and the items collected are
\* exactly those of the pages before it, in page order
C8_ErrorStopsCrawl ==
    \A i \in 1..Len(run.log) :
        run.log[i].error # None =>
            /\ i = Len(run.log)
            /\ run.done
            /\ \A j \in 1..Len(run.callbacks) : run.callbacks[j] # run.log[i].page_number
            /\ run.all_results = ItemsOf(SubSeq(run.log, 1, i - 1))

\* the second page fetched failed after some of its items were parsed
C8_Witness ==
    /\ Len(run.log) = 2
    /\ run.log[2].error # None
    /\ run.log[2].products # << >>
    /\ run.all_results = run.log[1].products
    /\ run.all_results # << >>
    /\ run.done

\* the page numbers of the results fetched without error, in fetch order
PagesExtracted(results) ==
    IF results = << >> THEN << >>
    ELSE IF results[1].error = None
         THEN << results[1].page_number >> \o PagesExtracted(Tail(results))
         ELSE PagesExtracted(Tail(results))

\* C24: the pages fetched are start_page, start_page + 1, ... in that order;
\* the callback has been called exactly once, in order, for every page
\* extracted without error, the last page fetched included; the items are
\* those of these pages; and the loop has stopped exactly when the last page
\* fetched has error set, or has_next_page false, or max_pages > 0 and its
\* number >= max_pages
C24_SequentialPagesAndStop ==
    LET n == Len(run.log)
    IN  /\ \A i \in 1..n : run.log[i].page_number = run.start_page + i - 1
        /\ run.callbacks = PagesExtracted(run.log)
        /\ run.all_results = ItemsOf(SelectSeq(run.log, LAMBDA r : r.error = None))
        /\ ~run.done => run.current_page = run.start_page + n
        /\ run.done <=>
              /\ n > 0
              /\ \/ run.log[n].error # None
                 \/ ~run.log[n].has_next_page
                 \/ run.max_pages > 0 /\ run.log[n].page_number >= run.max_pages

\* an unlimited crawl (max_pages = 0) resumed at page 2 has fetched pages 2, 3
\* and 4, past any page limit, and goes on
C24_Witness ==
    /\ run.max_pages = 0
    /\ run.start_page = 2
    /\ run.callbacks = << 2, 3, 4 >>
    /\ Len(run.log) = 3
    /\ run.log[3].has_next_page
    /\ ~run.done

----------------------------------------------------------------------------
(* Claims about the crawl state machine, checked under Spec *)

\* C9: at most one execution per configuration is active at any time: no two
\* workers execute scrape_search_config for the same configuration
C9_SingleFlight ==
    \A w1, w2 \in Workers :
        (w1 # w2 /\ workers[w1].pc # "idle" /\ workers[w2].pc # "idle")
            => workers[w1].config_id # workers[w2].config_id

\* C10: an execution that returns without an exception leaves its
\* configuration completed, with last_error cleared, total_products_found the
\* number of items saved and last_page_scraped the highest page fetched
C10_FinishedCrawlCompleted ==
    [][lastOp'.op = "crawl_returned" =>
          LET config == configs'[lastOp'.config_id]
          IN  /\ config.status = "completed"
              /\ config.last_error = None
              /\ config.total_products_found = lastOp'.saved_count
              /\ config.last_page_scraped = lastOp'.pages_scraped]_vars

C12_ResumeFromCheckpoint ==
    [][/\ (lastOp'.op = "scrape_search_config" /\ lastOp'.status = "started") =>
             \E w \in Workers :
                 /\ workers[w].pc = "idle"
                 /\ workers'[w].pc = "started"
                 /\ workers'[w].config.last_page_scraped
                        = configs[lastOp'.config_id].last_page_scraped
       /\ \A w \in Workers :
             workers'[w].pc = "scraping" =>
                 LET checkpoint == workers'[w].config.last_page_scraped
                     first == IF checkpoint > 0 THEN checkpoint + 1 ELSE 1
                     loop == workers'[w].loop
                 IN  /\ loop.start_page = first
                     /\ loop.log # << >> => loop.log[1].page_number = first]_vars

\* a crawl of a configuration whose previous execution ended in error (its
\* last_error is still there) fetched page 2 first, from checkpoint 1
C12_Witness ==
    \E w \in Workers :
        /\ workers[w].pc = "scraping"
        /\ workers[w].config.last_page_scraped = 1
        /\ workers[w].loop.log # << >>
        /\ workers[w].loop.log[1].page_number = 2
        /\ configs[workers[w].config_id].status = "running"
        /\ configs[workers[w].config_id].last_error # None

\* C15: while a configuration is running, no step of a crawl execution (a
\* page fetched, the finalization, the error handler) makes its persisted
\* last_page_scraped smaller
C15_CheckpointMonotoneWhileRunning ==
    [][\A c \in DOMAIN configs :
          (/\ configs[c].status = "running"
           /\ lastOp'.op \in {"scrape_search_config", "scrape_all_pages",
                              "search_products", "crawl_returned", "crawl_raised"})
              => configs'[c].last_page_scraped >= configs[c].last_page_scraped]_vars

\* C16: when one item of a run raises a persistence error, only that item is
\* lost: the error is in the run's error list, the run ends completed,
\* total_products_found counts every other accepted item and each of them has
\* its Product in the table
C16_ItemFailureIsolated ==
    [][(lastOp'.op \in {"crawl_returned", "crawl_raised"} /\ lastOp'.failed_item > 0) =>
          \E w \in Workers :
              /\ workers[w].pc = "scraping"
              /\ workers'[w].pc = "idle"
              /\ LET items == workers[w].loop.all_results
                     c == lastOp'.config_id
                     others == {i \in 1..Len(items) :
                                   i # lastOp'.failed_item /\ ItemAccepted(items[i])}
                 IN  /\ lastOp'.op = "crawl_returned"
                     /\ Len(lastOp'.errors) = 1
                     /\ configs'[c].status = "completed"
                     /\ configs'[c].total_products_found = Cardinality(others)
                     /\ \A i \in others :
                           ProductsByUrl(products', items[i].product_url) # {}]_vars

\* C20: when a page extraction of a run returned an error, the run's summary
\* has a non-empty errors list or the configuration's last_error is set when
\* the run ends
C20_PageFailureRecorded ==
    [][lastOp'.op \in {"crawl_returned", "crawl_raised"} =>
          \A w \in Workers :
              (/\ workers[w].pc = "scraping"
               /\ workers'[w].pc = "idle"
               /\ \E i \in 1..Len(workers[w].loop.log) :
                     workers[w].loop.log[i].error # None)
                  => \/ lastOp'.errors # << >>
                     \/ configs'[lastOp'.config_id].last_error # None]_vars

\* C21: an execution that set the configuration's status to running leaves it
\* completed or error when it returns or raises; the status is never still
\* running once the execution has ended
C21_RunningEndsCompletedOrError ==
    [][ (/\ lastOp'.op \in {"crawl_returned", "crawl_raised"}
         /\ lastOp'.config_id \in DOMAIN configs') =>
            configs'[lastOp'.config_id].status \in {"completed", "error"} ]_vars

\* C22: when an execution ends, by returning or by raising, the browser its
\* scraper launched is not left open, and a page is fetched only by an
\* execution whose own browser is open
C22_BrowserClosedOnExit ==
    [][ /\ lastOp'.op \in {"crawl_returned", "crawl_raised"} => lastOp'.browser # "open"
        /\ \A w \in Workers : workers'[w].pc = "idle" => workers'[w].browser = "none"
        /\ lastOp'.op = "search_products" =>
              \E w \in Workers : /\ workers[w].browser = "open"
                                 /\ workers'[w].loop # workers[w].loop ]_vars

----------------------------------------------------------------------------
(* Claims about triggers and resets, checked under SpecAdmin *)

\* C13: scrape_search_config returns 'Config not found' for a missing
\* configuration, 'skipped' for an inactive one and 'Store not found' for one
\* whose store is missing, and in these cases starts no crawl and changes no
\* configuration; otherwise it sets status to running with no page fetched yet
C13_TriggerRejections ==
    [][/\ lastOp'.op = "trigger_scrape_config" =>
             LET c == lastOp'.config_id
             IN  /\ lastOp'.http = (IF c \notin DOMAIN configs THEN 404
                                    ELSE IF ~configs[c].is_active THEN 400 ELSE 200)
                 /\ lastOp'.http # 200 => UNCHANGED <<configs, workers, queue>>
       /\ lastOp'.op = "scrape_search_config" =>
          LET c == lastOp'.config_id
          IN  IF c \notin DOMAIN configs
              THEN /\ lastOp'.status = "error"
                   /\ lastOp'.message = "Config not found"
                   /\ UNCHANGED <<configs, workers>>
              ELSE IF ~configs[c].is_active
              THEN /\ lastOp'.status = "skipped"
                   /\ UNCHANGED <<configs, workers>>
              ELSE IF configs[c].store_id \notin DOMAIN stores
              THEN /\ lastOp'.status = "error"
                   /\ lastOp'.message = "Store not found"
                   /\ UNCHANGED <<configs, workers>>
              ELSE /\ lastOp'.status = "started"
                   /\ configs'[c].status = "running"
                   /\ \E w \in Workers :
                         /\ workers[w].pc = "idle"
                         /\ workers'[w].pc = "started"
                         /\ workers'[w].config_id = c
                         /\ workers'[w].loop.log = << >>]_vars

\* a queued task found its configuration inactive: the configuration keeps
\* its completed status and its checkpoint, and the worker stays idle
C13_Witness ==
    /\ lastOp.op = "scrape_search_config"
    /\ lastOp.status = "skipped"
    /\ lastOp.config_id \in DOMAIN configs
    /\ ~configs[lastOp.config_id].is_active
    /\ configs[lastOp.config_id].status = "completed"
    /\ configs[lastOp.config_id].last_page_scraped > 0
    /\ \A w \in Workers : workers[w].pc = "idle"

\* C14: reset_search_config, whatever the configuration's state, sets
\* last_page_scraped 0, total_pages_found None, total_products_found 0, status
\* pending and last_error None, and leaves every other field and every other
\* configuration as they were
C14_ResetYieldsPending ==
    [][(lastOp'.op = "reset_search_config" /\ lastOp'.http = 200) =>
          LET c == lastOp'.config_id
          IN  /\ c \in DOMAIN configs
              /\ DOMAIN configs' = DOMAIN configs
              /\ configs'[c].last_page_scraped = 0
              /\ configs'[c].total_pages_found = NoPageTotal
              /\ configs'[c].total_products_found = 0
              /\ configs'[c].status = "pending"
              /\ configs'[c].last_error = None
              /\ \A f \in DOMAIN configs[c] \ {"last_page_scraped", "total_pages_found",
                                               "total_products_found", "status", "last_error"} :
                    configs'[c][f] = configs[c][f]
              /\ \A k \in DOMAIN configs \ {c} : configs'[k] = configs[k]]_vars

\* a reset of a running configuration that had a checkpoint, a page total,
\* a product total and an error
C14_Witness ==
    /\ lastOp.op = "reset_search_config"
    /\ lastOp.http = 200
    /\ lastOp.before.status = "running"
    /\ lastOp.before.last_page_scraped > 0
    /\ lastOp.before.total_pages_found # NoPageTotal
    /\ lastOp.before.total_products_found > 0
    /\ lastOp.before.last_error # None
    /\ configs[lastOp.config_id].status = "pending"
    /\ configs[lastOp.config_id].last_page_scraped = 0

(***************************************************************************)
(* Claims about the single-URL scraper's breaker, checked under SpecSources *)
(***************************************************************************)
FailedScrape == lastOp.op = "scrape_single_url" /\ lastOp.result.error # None
SucceededScrape == lastOp.op = "scrape_single_url" /\ lastOp.result.error = None

\* C17: error_count starts at 0 and changes only in a scrape; a failed scrape
\* adds exactly 1 to error_count and records the error as last_error; the
\* failure that brings error_count to 5 (the fifth in a row) leaves the source
\* with is_active = FALSE
C17_FailureCountsAndTrips ==
    [][ /\ Init => \A s \in SourceIds : sources[s].error_count = 0
        /\ \A s \in SourceIds :
              sources'[s].error_count # sources[s].error_count =>
                  lastOp'.op = "scrape_single_url" /\ lastOp'.source_id = s
        /\ FailedScrape' =>
              LET s == lastOp'.source_id
              IN /\ lastOp'.before = sources[s]
                 /\ sources'[s].error_count = sources[s].error_count + 1
                 /\ sources'[s].last_error = lastOp'.result.error
                 /\ sources'[s].last_error # None
                 /\ sources'[s].error_count = ErrorThreshold =>
                        ~sources'[s].is_active ]_vars

\* the fifth failure in a row has just tripped the breaker
C17_Witness ==
    /\ FailedScrape
    /\ lastOp.before.is_active
    /\ lastOp.before.error_count = ErrorThreshold - 1
    /\ sources[lastOp.source_id].error_count = ErrorThreshold
    /\ ~sources[lastOp.source_id].is_active

\* C18: a successful scrape sets error_count to 0 and last_error to None and
\* leaves is_active as it was
C18_SuccessResetsKeepsActive ==
    [][ SucceededScrape' =>
          LET s == lastOp'.source_id
          IN /\ lastOp'.before = sources[s]
             /\ sources'[s].error_count = 0
             /\ sources'[s].last_error = None
             /\ sources'[s].is_active = sources[s].is_active
             /\ sources'[s] = [sources[s] EXCEPT !.error_count = 0, !.last_error = None] ]_vars

\* a source the breaker had switched off has been scraped successfully and is
\* still off
C18_Witness ==
    /\ SucceededScrape
    /\ ~lastOp.before.is_active
    /\ lastOp.before.error_count >= ErrorThreshold
    /\ lastOp.before.last_error # None
    /\ sources[lastOp.source_id].error_count = 0
    /\ sources[lastOp.source_id].last_error = None
    /\ ~sources[lastOp.source_id].is_active

\* C19: a scrape_single_url job that runs while the breaker has the source
\* switched off (is_active = FALSE, error_count >= 5) scrapes nothing: it
\* writes no product and no price history and leaves the source row alone
C19_QuarantinedNotScraped ==
    [][ \A s \in SourceIds :
          (/\ ~sources[s].is_active
           /\ sources[s].error_count >= ErrorThreshold
           /\ queue'[s] < queue[s]) =>
              /\ lastOp'.op # "scrape_single_url"
              /\ UNCHANGED <<products, history, sources>> ]_vars

(***************************************************************************)
(* Claims about a configuration switched off during its crawl, checked     *)
(* under SpecAdmin                                                         *)
(***************************************************************************)
\* the execution of worker w runs on a configuration that update_search_config
\* has switched off since the task started
DeactivatedInFlight(w) ==
    /\ workers[w].pc # "idle"
    /\ workers[w].config_id \in DOMAIN configs
    /\ ~configs[workers[w].config_id].is_active

\* C23: an execution whose configuration was switched off while it ran still
\* ends with the configuration completed or error and still inactive; pages
\* are fetched for it as for any other; and a trigger of the inactive
\* configuration is rejected with 400 and queues nothing
C23_DeactivationOnlyBlocksNextTrigger ==
    [][ /\ \A w \in Workers :
              (DeactivatedInFlight(w) /\ workers'[w].pc = "idle") =>
                  /\ configs'[workers[w].config_id].status \in {"completed", "error"}
                  /\ ~configs'[workers[w].config_id].is_active
        /\ \A w \in Workers :
              (DeactivatedInFlight(w) /\ workers[w].pc = "scraping" /\ ~workers[w].loop.done) =>
                  ENABLED FetchPage(w)
        /\ (/\ lastOp'.op = "trigger_scrape_config"
            /\ lastOp'.config_id \in DOMAIN configs
            /\ ~configs[lastOp'.config_id].is_active) =>
                  lastOp'.http = 400 /\ queue' = queue ]_vars

(***************************************************************************)
(* navigate_to and the navigation step of search_products                  *)
(***************************************************************************)
\* what a call does: it returns a value or raises an exception; calls is the
\* sequence of browser calls it made
Return(value, calls) == [kind |-> "return", value |-> value, calls |-> calls]
Raise(error, calls) == [kind |-> "raise", value |-> error, calls |-> calls]

\* what page.goto may do: a response with a status, no response (None), a
\* navigation timeout, or another browser error
GotoOutcomes ==
    { [raised |-> None, status |-> st] : st \in {NoResponse, 200, 304, 399, 400, 404, 503} }
    \cup { [raised |-> e, status |-> NoResponse]
           : e \in {"Timeout 30000ms exceeded", "net::ERR_CONNECTION_RESET"} }

\* what wait_for_selector and scroll_page may do: None, or the error raised
CallOutcomes == {None, "Timeout 15000ms exceeded", "Target closed"}

\* faulty variant: the exception is not caught
Uncaught(outcome) == outcome

\* lines 171-173: except Exception returns False
Caught(outcome) ==
    IF outcome.kind = "raise" THEN Return(FALSE, outcome.calls) ELSE outcome

\* lines 151-173
navigate_to(page_initialized, goto, wait_selector, wait, scroll) ==
    IF ~page_initialized THEN Return(FALSE, << >>)
    ELSE Caught(
        IF goto.raised # None THEN Raise(goto.raised, << "goto" >>)
        ELSE IF goto.status # NoResponse /\ goto.status >= 400
             THEN Return(FALSE, << "goto" >>)
        ELSE IF wait_selector # None /\ wait # None
             THEN Raise(wait, << "goto", "wait_for_selector" >>)
        ELSE LET calls == IF wait_selector # None
                          THEN << "goto", "wait_for_selector", "scroll_page" >>
                          ELSE << "goto", "scroll_page" >>
             IN  IF scroll # None THEN Raise(scroll, calls) ELSE Return(TRUE, calls) )

\* LazadaScraper.search_products lines 73-82 and 250-254, ShopeeScraper
\* search_products lines 79-88 and 316-320: the result when the navigation
\* fails, "extract" when the extraction goes on
search_products_navigate(page, nav) ==
    LET result == [page_number |-> page, products |-> << >>,
                   has_next_page |-> FALSE, error |-> None]
    IN  IF nav.kind = "raise" THEN Return([result EXCEPT !.error = nav.value], nav.calls)
        ELSE IF ~nav.value
             THEN Return([result EXCEPT !.error = "Failed to load search page"], nav.calls)
             ELSE Return("extract", nav.calls)

\* one call of search_products up to the end of its navigation
Navigate(variant, page_initialized, goto, wait_selector, wait, scroll) ==
    /\ LET nav == navigate_to(page_initialized, goto, wait_selector, wait, scroll)
       IN  lastOp' = [op |-> "navigate_to", variant |-> variant,
                      page_initialized |-> page_initialized, goto |-> goto,
                      wait_selector |-> wait_selector, wait |-> wait, scroll |-> scroll,
                      nav |-> nav, out |-> search_products_navigate(1, nav)]
    /\ UNCHANGED <<products, history, sources, stores, configs, today, queue, workers, run>>

NextNavigate ==
    \E variant \in {"lazada", "shopee"}, page_initialized \in BOOLEAN, goto \in GotoOutcomes,
       wait_selector \in {None, ".product"}, wait \in CallOutcomes, scroll \in CallOutcomes :
          Navigate(variant, page_initialized, goto, wait_selector, wait, scroll)

SpecNavigate == Init /\ [][NextNavigate]_vars

\* C25: navigate_to never raises; it returns False exactly when the page is
\* not initialised, goto raised (timeout or other), the response status is
\* >= 400, or wait_for_selector or scroll_page raised, and True otherwise,
\* after scroll_page; on False search_products returns, without raising, a
\* result with error set and no products
C25_NavigateNeverRaises ==
    lastOp.op = "navigate_to" =>
        LET failed == \/ ~lastOp.page_initialized
                      \/ lastOp.goto.raised # None
                      \/ lastOp.goto.status # NoResponse /\ lastOp.goto.status >= 400
                      \/ lastOp.wait_selector # None /\ lastOp.wait # None
                      \/ lastOp.scroll # None
        IN  /\ lastOp.nav.kind = "return"
            /\ lastOp.nav.value = ~failed
            /\ lastOp.nav.value =>
                  /\ lastOp.nav.calls[Len(lastOp.nav.calls)] = "scroll_page"
                  /\ lastOp.out.value = "extract"
            /\ ~lastOp.nav.value =>
                  /\ lastOp.out.kind = "return"
                  /\ lastOp.out.value.error # None
                  /\ lastOp.out.value.products = << >>

\* goto timed out on an initialised page and search_products returned the
\* failure result
C25_Witness ==
    /\ lastOp.op = "navigate_to"
    /\ lastOp.page_initialized
    /\ lastOp.goto.raised = "Timeout 30000ms exceeded"
    /\ lastOp.nav = Return(FALSE, << "goto" >>)
    /\ lastOp.out.value.error = "Failed to load search page"

(***************************************************************************)
(* Creating, renaming and deleting search configurations                   *)
(***************************************************************************)
\* ids (uuid4 in the code) of the search_configs rows of this section
ConfigRowIds == {"c1", "c2", "c3", "c4"}

\* search terms sent to the routes; the first two entries of default_searches
\* (search_task.py lines 337-338)
SearchTerms == {"graphics card", "RTX 4090"}
DefaultSearches == << "graphics card", "RTX 4090" >>

\* the id of the row about to be inserted
FreshId(cfgs) == CHOOSE id \in ConfigRowIds : id \notin DOMAIN cfgs

\* the duplicate check of create_search_config (lines 85-90) and of
\* create_default_search_configs (lines 376-380)
Existing(cfgs, store_id, search_term) ==
    {c \in DOMAIN cfgs : cfgs[c].store_id = store_id /\ cfgs[c].search_term = search_term}

\* a SearchConfig row with its search term
ConfigRow(store_id, search_term) ==
    [ store_id |-> store_id, search_term |-> search_term, category |-> "gpu",
      max_pages |-> 5, last_page_scraped |-> 0, total_pages_found |-> NoPageTotal,
      total_products_found |-> 0, is_active |-> TRUE, status |-> "pending",
      last_error |-> None ]

\* session.add of a new row
Inserted(cfgs, row) ==
    [c \in DOMAIN cfgs \cup {FreshId(cfgs)} |-> IF c \in DOMAIN cfgs THEN cfgs[c] ELSE row]

\* POST /search-configs
CreateSearchConfig(store_id, search_term) ==
    /\ DOMAIN configs # ConfigRowIds
    /\ LET http == IF store_id \notin DOMAIN stores THEN 404
                   ELSE IF ~KnownStoreType(stores[store_id].name) THEN 400
                   ELSE IF Existing(configs, store_id, search_term) # {} THEN 400
                   ELSE 200
       IN  /\ configs' = IF http = 200
                         THEN Inserted(configs, ConfigRow(store_id, search_term))
                         ELSE configs
           /\ lastOp' = [op |-> "create_search_config", store_id |-> store_id,
                         search_term |-> search_term, http |-> http]
    /\ UNCHANGED <<products, history, sources, stores, today, queue, workers, run>>

\* create_default_search_configs lines 373-400: the loop over the stores found
\* and the default searches; pairs is what is left to go through
RECURSIVE AddDefaults(_, _)
AddDefaults(cfgs, pairs) ==
    IF pairs = << >> THEN cfgs
    ELSE LET store_id == Head(pairs)[1]
             search_term == Head(pairs)[2]
         IN  IF Existing(cfgs, store_id, search_term) # {}
             THEN AddDefaults(cfgs, Tail(pairs))
             ELSE AddDefaults(Inserted(cfgs, ConfigRow(store_id, search_term)), Tail(pairs))

\* the (store, search term) pairs of the two loops, for the stores found
DefaultPairs(found) ==
    [i \in 1..(Len(found) * Len(DefaultSearches)) |->
        << found[((i - 1) \div Len(DefaultSearches)) + 1],
           DefaultSearches[((i - 1) % Len(DefaultSearches)) + 1] >>]

\* create_default_search_configs: first() picks one Lazada and one Shopee store
CreateDefaultSearchConfigs ==
    LET lazada == {s \in DOMAIN stores : stores[s].name \in LazadaNames}
        shopee == {s \in DOMAIN stores : stores[s].name \in ShopeeNames}
        found == (IF lazada = {} THEN << >> ELSE << CHOOSE s \in lazada : TRUE >>)
                 \o (IF shopee = {} THEN << >> ELSE << CHOOSE s \in shopee : TRUE >>)
        missing == {i \in 1..Len(DefaultPairs(found)) :
                       Existing(configs, DefaultPairs(found)[i][1], DefaultPairs(found)[i][2]) = {}}
    IN  /\ Cardinality(DOMAIN configs) + Cardinality(missing) <= Cardinality(ConfigRowIds)
        /\ configs' = AddDefaults(configs, DefaultPairs(found))
        /\ lastOp' = [op |-> "create_default_search_configs",
                      created |-> Cardinality(missing)]
        /\ UNCHANGED <<products, history, sources, stores, today, queue, workers, run>>

InitConfigs ==
    /\ InitTables
    /\ configs = [c \in {} |-> ConfigRow("s1", "graphics card")]
    /\ run = IdleLoop

NextConfigs ==
    \/ \E s \in StoreIds, t \in SearchTerms : CreateSearchConfig(s, t)
    \/ \E c \in ConfigRowIds, t \in SearchTerms : UpdateSearchConfig(c, [search_term |-> t])
    \/ CreateDefaultSearchConfigs
    \/ \E c \in ConfigRowIds : DeleteSearchConfig(c)
    \/ \E name \in ShopeeNames : UpdateStore("s3", name)

SpecConfigs == InitConfigs /\ [][NextConfigs]_vars

\* C26: no two configurations have the same store and search term
C26_UniqueStoreAndTerm ==
    \A a, b \in DOMAIN configs :
        (configs[a].store_id = configs[b].store_id
            /\ configs[a].search_term = configs[b].search_term) => a = b

(***************************************************************************)
(* parse_price (Lazada) and parse_shopee_price (Shopee)                    *)
(*                                                                         *)
(* A price text is a sequence of tokens: the peso sign U+20B1, the three   *)
(* characters U+00E2 U+201A U+00B1 that parse_price removes (line 181),    *)
(* the marker PHP, a comma, a space, a hyphen, the digits 1 and 2 and a    *)
(* letter. A price is a whole number.                                      *)
(***************************************************************************)
Peso == "peso"
MisencodedPeso == "a-circumflex low-quote plus-minus"
Digits == {"1", "2"}
PriceTokens == {Peso, MisencodedPeso, "PHP", ",", " ", "-", "x"} \cup Digits

PriceTexts == UNION { [1..n -> PriceTokens] : n \in 0..MaxPriceLen }

\* str.replace(token, '')
Without(text, token) == SelectSeq(text, LAMBDA t : t # token)

\* str.strip()
RECURSIVE strip(_)
strip(text) ==
    IF text = << >> THEN text
    ELSE IF Head(text) = " " THEN strip(Tail(text))
    ELSE IF text[Len(text)] = " " THEN strip(SubSeq(text, 1, Len(text) - 1))
    ELSE text

Contains(text, token) == \E i \in 1..Len(text) : text[i] = token
Count(text, token) == Cardinality({i \in 1..Len(text) : text[i] = token})

\* str.split(sep)[0] for a separator that occurs in the text
BeforeFirst(text, sep) ==
    LET at == CHOOSE i \in 1..(Len(text) - Len(sep) + 1) :
                  /\ SubSeq(text, i, i + Len(sep) - 1) = sep
                  /\ \A j \in 1..(i - 1) : SubSeq(text, j, j + Len(sep) - 1) # sep
    IN  SubSeq(text, 1, at - 1)
ContainsSeq(text, sep) ==
    \E i \in 1..(Len(text) - Len(sep) + 1) : SubSeq(text, i, i + Len(sep) - 1) = sep

AllDigits(text) == text # << >> /\ \A i \in 1..Len(text) : text[i] \in Digits
RECURSIVE Value(_)
Value(digits) ==
    IF digits = << >> THEN 0
    ELSE 10 * Value(SubSeq(digits, 1, Len(digits) - 1))
         + (IF digits[Len(digits)] = "1" THEN 1 ELSE 2)

\* float(cleaned), NoPrice for ValueError; float ignores surrounding spaces
float(cleaned) == IF AllDigits(strip(cleaned)) THEN Value(strip(cleaned)) ELSE NoPrice

\* PlaywrightBaseScraper.parse_price, lines 175-191
parse_price(price_text) ==
    IF price_text = << >> THEN NoPrice
    ELSE LET cleaned == strip(Without(Without(Without(price_text, MisencodedPeso), "PHP"), ","))
         IN  IF Contains(cleaned, "-")
             THEN float(strip(BeforeFirst(cleaned, << "-" >>)))
             ELSE float(cleaned)

\* ShopeeScraper.parse_shopee_price, lines 322-340
parse_shopee_price(price_text) ==
    IF price_text = << >> THEN NoPrice
    ELSE LET cleaned == strip(Without(Without(Without(price_text, Peso), "PHP"), ","))
         IN  IF ContainsSeq(cleaned, << " ", "-", " " >>)
             THEN float(strip(BeforeFirst(cleaned, << " ", "-", " " >>)))
             ELSE IF Contains(cleaned, "-") /\ Count(cleaned, "-") = 1
             THEN float(strip(BeforeFirst(cleaned, << "-" >>)))
             ELSE float(cleaned)

\* lazada_scraper.py lines 176-178, shopee_scraper.py lines 218-220:
\* if not price: continue
ItemAdded(price) == price # NoPrice /\ price # 0

InitPrices ==
    /\ InitTables
    /\ configs = [c \in ConfigIds |-> NewConfig("s1", "gpu", 10)]
    /\ \E variant \in {"lazada", "shopee"}, text \in PriceTexts :
          run = [variant |-> variant, text |-> text]

\* the price of one extracted item is parsed
ParsePrice ==
    /\ lastOp.op = "init"
    /\ LET price == IF run.variant = "lazada" THEN parse_price(run.text)
                    ELSE parse_shopee_price(run.text)
       IN  lastOp' = [op |-> "parse_price", price |-> price, added |-> ItemAdded(price)]
    /\ UNCHANGED <<products, history, sources, stores, configs, today, queue, workers, run>>

NextPrices == ParsePrice

SpecPrices == InitPrices /\ [][NextPrices]_vars

\* C27: in both variants, with the peso sign, PHP and the commas removed: a
\* text that is then a number yields that number; a text that is then a range
\* 'X - Y' or 'X-Y' of two numbers yields X; an empty text yields no price;
\* and an item with no price is not added
C27_PriceParsing ==
    lastOp.op = "parse_price" =>
        LET amount == strip(Without(Without(Without(run.text, Peso), "PHP"), ","))
            lower == strip(BeforeFirst(amount, << "-" >>))
            upper == strip(SubSeq(amount, Len(BeforeFirst(amount, << "-" >>)) + 2, Len(amount)))
        IN  /\ AllDigits(amount) => lastOp.price = Value(amount)
            /\ (Count(amount, "-") = 1 /\ AllDigits(lower) /\ AllDigits(upper)) =>
                  lastOp.price = Value(lower)
            /\ run.text = << >> => lastOp.price = NoPrice
            /\ lastOp.price = NoPrice => ~lastOp.added

(***************************************************************************)
(* build_search_url of the two storefront variants                         *)
(***************************************************************************)
UrlSearchTerms == {"graphics card", "RTX 4090", "DDR5 RAM", "processor"}

\* the page parameter of the first results page of the storefront
\* (shopee_scraper.py lines 59 and 63: Shopee uses 0-indexed pages in its URL)
FirstStorefrontPage(variant) == IF variant = "shopee" THEN 0 ELSE 1

\* faulty variant: the external page number is passed through
ShopeePageOneIndexed(page) == page

\* shopee_scraper.py line 63
ShopeePage(page) == page - 1

\* lazada_scraper.py line 57
LazadaPage(page) == page

\* LazadaScraper.build_search_url and ShopeeScraper.build_search_url: the URL
\* as its base, path and query parameters
build_search_url(variant, search_term, page) ==
    IF variant = "shopee"
    THEN [ base |-> "https://shopee.ph", path |-> "/search",
           term_key |-> "keyword", term |-> search_term, page |-> ShopeePage(page) ]
    ELSE [ base |-> "https://www.lazada.com.ph", path |-> "/catalog/",
           term_key |-> "q", term |-> search_term, page |-> LazadaPage(page) ]

\* a crawl of one variant that starts at the page after last_page_scraped
InitUrls ==
    /\ InitTables
    /\ configs = [c \in ConfigIds |-> NewConfig("s1", "gpu", 10)]
    /\ \E variant \in {"lazada", "shopee"}, search_term \in UrlSearchTerms,
          last_page_scraped \in 0..MaxPage :
          run = [ variant |-> variant, search_term |-> search_term,
                  start_page |-> start_page([last_page_scraped |-> last_page_scraped]),
                  current_page |-> start_page([last_page_scraped |-> last_page_scraped]),
                  urls |-> << >> ]

\* search_products builds the URL of the current page (lazada_scraper.py line
\* 72, shopee_scraper.py line 78) and the loop moves to the next page
BuildSearchUrl ==
    /\ run.current_page <= MaxPage + 1
    /\ run' = [run EXCEPT !.urls = Append(@, build_search_url(run.variant, run.search_term,
                                                                run.current_page)),
                          !.current_page = @ + 1]
    /\ lastOp' = [op |-> "build_search_url", page |-> run.current_page]
    /\ UNCHANGED <<products, history, sources, stores, configs, today, queue, workers>>

NextUrls == BuildSearchUrl

SpecUrls == InitUrls /\ [][NextUrls]_vars

\* C28: the URL built for external page p carries page = p for Lazada and
\* page = p - 1 for Shopee, so that external page p is the p-th results page
\* of the storefront, and consecutive external pages are consecutive
\* storefront pages
C28_PageParameter ==
    \A i \in 1..Len(run.urls) :
        LET p == run.start_page + i - 1
        IN  /\ p >= 1
            /\ run.urls[i].page = IF run.variant = "shopee" THEN p - 1 ELSE p
            /\ run.urls[i].page - FirstStorefrontPage(run.variant) + 1 = p
            /\ run.urls[i].term = run.search_term
            /\ i > 1 => run.urls[i].page = run.urls[i - 1].page + 1

\* a Shopee crawl resumed after page 2 has built the URLs of external pages 3
\* and 4, which carry page = 2 and page = 3
C28_Witness ==
    /\ run.variant = "shopee"
    /\ run.start_page = 3
    /\ Len(run.urls) = 2
    /\ run.urls[1].page = 2
    /\ run.urls[2].page = 3

(***************************************************************************)
(* Re-ingestion under another store or category                            *)
(***************************************************************************)
Categories == {"gpu", "cpu"}

\* items found by searches of any store and category, and successful scrapes
\* of the single-URL source, whose product carries the source's store and brand
NextReingest ==
    \/ \E result \in SearchResults, store_id \in StoreIds, category \in Categories :
          /\ ItemAccepted(result)
          /\ result.price > 0
          /\ SaveSearchResult(result, store_id, category)
    \/ \E s \in SourceIds, result \in ScrapedDatas :
          /\ result.error = None
          /\ ScrapeSingleUrl(s, result)

SpecReingest == InitIngest /\ [][NextReingest]_vars

\* C29: save_search_result of an item whose URL an existing Product has
\* overwrites that row's name, current_price, scrape_date, currency and
\* price_change and leaves its id, url, store_id, category and brand, and
\* every other row, as they were
C29_ReingestFrame ==
    [][ (/\ lastOp'.op = "save_search_result"
         /\ lastOp'.existed
         /\ lastOp'.ret # NoProductId) =>
            LET i == lastOp'.ret
            IN  /\ i \in DOMAIN products
                /\ Len(products') = Len(products)
                /\ products[i].url = lastOp'.url
                /\ products'[i] = [products[i] EXCEPT
                                      !.name = lastOp'.result.title,
                                      !.current_price = lastOp'.result.price,
                                      !.scrape_date = today,
                                      !.currency = "PHP",
                                      !.price_change = products'[i].price_change]
                /\ products'[i].url = products[i].url
                /\ products'[i].store_id = products[i].store_id
                /\ products'[i].category = products[i].category
                /\ products'[i].brand = products[i].brand
                /\ \A j \in DOMAIN products : j # i => products'[j] = products[j] ]_vars

\* a product that the single-URL scraper created for store s3 with a brand
\* has been re-ingested from a search of another store and category, with
\* another name and price
C29_Witness ==
    /\ lastOp.op = "save_search_result"
    /\ lastOp.existed
    /\ lastOp.ret # NoProductId
    /\ products[lastOp.ret].store_id # lastOp.store_id
    /\ products[lastOp.ret].category # lastOp.category
    /\ products[lastOp.ret].brand # None
    /\ products[lastOp.ret].name = lastOp.result.title
    /\ products[lastOp.ret].current_price = lastOp.result.price
    /\ products[lastOp.ret].currency = "PHP"

(***************************************************************************)
(* Claim about the breaker and the toggle route, checked under SpecSources *)
(***************************************************************************)
\* C30: in every state, a source whose error_count is 5 or more is inactive
C30_TrippedMeansInactive ==
    \A s \in SourceIds :
        sources[s].error_count >= ErrorThreshold => ~sources[s].is_active

(***************************************************************************)
(* Claims about resets during a crawl and about checkpoints across crawls  *)
(***************************************************************************)
\* C31: a configuration that reset_search_config has put back to pending with
\* last_page_scraped = 0, and that has not been triggered since, is still
\* pending with last_page_scraped = 0 after an execution that was running at
\* the reset has ended
C31_ResetSurvivesFinalization ==
    [][ \A w \in Workers :
          LET c == workers[w].config_id
          IN  (/\ workers[w].pc # "idle"
               /\ workers'[w].pc = "idle"
               /\ c \in DOMAIN configs
               /\ configs[c].status = "pending"
               /\ configs[c].last_page_scraped = 0
               /\ queue[c] = 0) =>
                  /\ configs'[c].status = "pending"
                  /\ configs'[c].last_page_scraped = 0 ]_vars

\* C32: an execution that ends leaves its configuration with a
\* last_page_scraped at least as large as the one it read when it started
C32_CheckpointNeverDecreases ==
    [][ \A w \in Workers :
          (/\ workers[w].pc # "idle"
           /\ workers'[w].pc = "idle"
           /\ lastOp'.op \in {"crawl_returned", "crawl_raised"}
           /\ workers[w].config_id \in DOMAIN configs') =>
              configs'[workers[w].config_id].last_page_scraped
                  >= workers[w].config.last_page_scraped ]_vars

\* C33: an execution of a configuration with max_pages = N > 0 fetches no
\* page whose number is greater than N
C33_NoPagePastMaxPages ==
    \A w \in Workers :
        (workers[w].pc = "scraping" /\ workers[w].config.max_pages > 0) =>
            \A i \in 1..Len(workers[w].loop.log) :
                workers[w].loop.log[i].page_number <= workers[w].config.max_pages

\* the pages whose own listings are in the products table: pages 1 and 2 list
\* urls no other page lists (PageItems)
PagesPersisted ==
    { p \in 1..2 : \E i \in 1..Len(products) :
                      products[i].url = PageItems(p)[1].product_url }

\* the persisted checkpoint of every configuration covers the persisted pages
CheckpointCoversData ==
    \A c \in DOMAIN configs :
        \A p \in PagesPersisted : configs[c].last_page_scraped >= p

\* C34: the products and history tables change only in the step that sets the
\* configuration completed with the last_page_scraped of that execution, an
\* execution that ends in error changes neither table, and after every step
\* last_page_scraped covers every page whose listings are persisted
C34_DataAndCheckpointCommitTogether ==
    [][ /\ (products' # products \/ history' # history) =>
              /\ lastOp'.op = "crawl_returned"
              /\ lastOp'.config_id \in DOMAIN configs'
              /\ configs'[lastOp'.config_id].status = "completed"
              /\ configs'[lastOp'.config_id].last_page_scraped = lastOp'.pages_scraped
        /\ CheckpointCoversData' ]_vars

(***************************************************************************)
(* Claims about the currency of price history                              *)
(***************************************************************************)
\* C36: every price history entry carries the currency of the product it
\* belongs to
C36_HistoryCurrencyIsProductCurrency ==
    \A i \in 1..Len(history) :
        history[i].product_id \in 1..Len(products) =>
            history[i].currency = products[history[i].product_id].currency

(***************************************************************************)
(* Two executions of different configurations ingesting the same listing   *)
(***************************************************************************)
\* Each execution runs in its own worker process with its own Session
\* (search_task.py line 199) on PostgreSQL (database.py lines 6-9) at its
\* default isolation level: a statement sees the rows committed before it
\* started and the session's own writes; an INSERT or UPDATE waits while
\* another transaction holds an uncommitted write of the same unique key or
\* row. run[w] is the execution of worker w: the configuration it crawls, the
\* listing it saves, its position in save_search_result and the writes its
\* session holds.

ConcurrentConfigId == [w \in Workers |-> IF w = "w1" THEN "c1" ELSE "c2"]

ConcurrentPrices == {100, 80}

SharedUrl == "u1"

\* the tables before the two executions: empty, the product known since the
\* day before, or the product already recorded today
ConcurrentTables ==
    LET p == NewProduct(GoodItem(SharedUrl), "s1", "gpu", 0)
        h == NewSearchHistory(1, GoodItem(SharedUrl), 0)
    IN  { [products |-> << >>, history |-> << >>],
          [products |-> << p >>, history |-> << h >>],
          [products |-> << [p EXCEPT !.scrape_date = 1] >>,
           history |-> << h, NewSearchHistory(1, GoodItem(SharedUrl), 1) >>] }

\* an execution whose session is open and whose crawl returned one listing
NewExecution(config_id, price) ==
    [ config_id |-> config_id,
      item |-> [GoodItem(SharedUrl) EXCEPT !.price = price],
      pc |-> "begin", existing |-> NoProductId, product_id |-> NoProductId,
      ins_product |-> << >>, upd_product |-> << >>,
      ins_history |-> << >>, upd_history |-> << >>,
      active |-> TRUE, saved_count |-> 0, errors |-> << >> ]

InitConcurrent ==
    /\ \E t \in ConcurrentTables : products = t.products /\ history = t.history
    /\ sources = [s \in SourceIds |->
                    [ url |-> "u9", store_id |-> "s3", category |-> "gpu",
                      brand |-> "b1", is_active |-> TRUE, error_count |-> 0,
                      last_error |-> None ]]
    /\ stores = [s \in StoreIds |->
                    [ name |-> IF s = "s1" THEN "Lazada Philippines" ELSE "Newegg" ]]
    /\ today = 1
    /\ queue = [k \in ConfigIds \cup SourceIds |-> 0]
    /\ workers = [w \in Workers |-> IdleWorker]
    /\ configs = [c \in {ConcurrentConfigId[w] : w \in Workers} |->
                    [NewConfig("s1", "gpu", 1) EXCEPT !.status = "running"]]
    /\ \E price \in [Workers -> ConcurrentPrices] :
          run = [w \in Workers |-> NewExecution(ConcurrentConfigId[w], price[w])]
    /\ lastOp = [op |-> "init"]

\* the other session holds an INSERT of the url it has not committed
InsertPending(w) ==
    \E v \in Workers \ {w} : run[v].ins_product # << >> /\ run[v].pc \in {"flushed", "saved"}

\* the other session holds an UPDATE of the product row it has not committed
RowLocked(w) ==
    \E v \in Workers \ {w} : run[v].upd_product # << >> /\ run[v].pc = "saved"

\* save_search_result lines 91-93: the lookup by url sees committed rows
SelectProduct(w) ==
    /\ run[w].pc = "begin"
    /\ \E found \in IF ProductsByUrl(products, run[w].item.product_url) = {}
                    THEN {NoProductId}
                    ELSE ProductsByUrl(products, run[w].item.product_url) :
          run' = [run EXCEPT ![w].pc = "selected", ![w].existing = found]
    /\ lastOp' = [op |-> "select_product", worker |-> w]
    /\ UNCHANGED <<products, history, sources, stores, configs, today, queue, workers>>

\* save_search_result lines 96-131. For a product that was found the fields
\* are set in the session (the UPDATE is sent by the next autoflush). For one
\* that was not, session.flush() sends the INSERT: it waits for an uncommitted
\* INSERT of the same url, and raises IntegrityError when the url has been
\* committed in the meantime (Product.url is unique, models/product.py line
\* 24); the error is caught at lines 213-215 and leaves the session inactive
WriteProduct(w) ==
    /\ run[w].pc = "selected"
    /\ IF run[w].existing # NoProductId
       THEN \E pc \in calculate_price_change(history, run[w].item.price,
                                             run[w].existing, today) :
               run' = [run EXCEPT
                          ![w].pc = "flushed",
                          ![w].product_id = run[w].existing,
                          ![w].upd_product =
                              << UpdatedProduct(products[run[w].existing],
                                                run[w].item, today, pc) >>]
       ELSE /\ ~InsertPending(w)
            /\ IF ProductsByUrl(products, run[w].item.product_url) # {}
               THEN run' = [run EXCEPT ![w].pc = "saved",
                                       ![w].active = FALSE,
                                       ![w].errors = Append(@, "IntegrityError")]
               ELSE run' = [run EXCEPT
                               ![w].pc = "flushed",
                               ![w].product_id = Len(products) + 1,
                               ![w].ins_product =
                                   << NewProduct(run[w].item,
                                                 configs[run[w].config_id].store_id,
                                                 configs[run[w].config_id].category,
                                                 today) >>]
    /\ lastOp' = [op |-> "write_product", worker |-> w, active |-> run'[w].active]
    /\ UNCHANGED <<products, history, sources, stores, configs, today, queue, workers>>

\* save_search_result lines 134-153: the query autoflushes the UPDATE of the
\* product, which waits for the row lock of the other session; it then sees
\* the committed entries of today, and the entry is added or changed in the
\* session
SaveHistory(w) ==
    /\ run[w].pc = "flushed"
    /\ ~RowLocked(w)
    /\ IF TodayEntries(history, run[w].product_id, today) = {}
       THEN run' = [run EXCEPT
                       ![w].pc = "saved",
                       ![w].saved_count = @ + 1,
                       ![w].ins_history =
                           << NewSearchHistory(run[w].product_id, run[w].item, today) >>]
       ELSE \E i \in TodayEntries(history, run[w].product_id, today) :
               run' = [run EXCEPT
                          ![w].pc = "saved",
                          ![w].saved_count = @ + 1,
                          ![w].upd_history = << [index |-> i, price |-> run[w].item.price] >>]
    /\ lastOp' = [op |-> "save_history", worker |-> w]
    /\ UNCHANGED <<products, history, sources, stores, configs, today, queue, workers>>

\* the tables after the session's writes are committed
CommittedProducts(s) ==
    LET updated == IF s.upd_product = << >> THEN products
                   ELSE [products EXCEPT ![s.product_id] = s.upd_product[1]]
    IN  updated \o s.ins_product

CommittedHistory(s) ==
    LET updated == IF s.upd_history = << >> THEN history
                   ELSE [history EXCEPT ![s.upd_history[1].index].price =
                                            s.upd_history[1].price]
    IN  updated \o s.ins_history

\* lines 217-243: an active session commits its writes with the completed
\* status; in an inactive one session.get raises PendingRollbackError, the
\* writes are dropped and the except block stores status error
EndExecution(w) ==
    /\ run[w].pc = "saved"
    /\ IF run[w].active
       THEN /\ products' = CommittedProducts(run[w])
            /\ history' = CommittedHistory(run[w])
            /\ configs' = [configs EXCEPT ![run[w].config_id] =
                              CompletedConfig(@, run[w].saved_count, 1)]
            /\ lastOp' = [op |-> "crawl_returned", config_id |-> run[w].config_id,
                          errors |-> run[w].errors]
       ELSE /\ UNCHANGED <<products, history>>
            /\ configs' = [configs EXCEPT ![run[w].config_id] =
                              FailedConfig(@, "PendingRollbackError")]
            /\ lastOp' = [op |-> "crawl_raised", config_id |-> run[w].config_id,
                          errors |-> Append(run[w].errors, "PendingRollbackError")]
    /\ run' = [run EXCEPT ![w].pc = "done"]
    /\ UNCHANGED <<sources, stores, today, queue, workers>>

NextConcurrent ==
    \E w \in Workers :
        \/ SelectProduct(w)
        \/ WriteProduct(w)
        \/ SaveHistory(w)
        \/ EndExecution(w)

SpecConcurrent == InitConcurrent /\ [][NextConcurrent]_vars

\* C35: when both executions have ended there is exactly one product with the
\* shared url, exactly one history entry of it for today, and neither
\* configuration has status error
C35_ConcurrentIngestionOfOneUrl ==
    (\A w \in Workers : run[w].pc = "done") =>
        /\ Cardinality(ProductsByUrl(products, SharedUrl)) = 1
        /\ \A i \in ProductsByUrl(products, SharedUrl) :
              Cardinality(TodayEntries(history, i, today)) = 1
        /\ \A w \in Workers : configs[ConcurrentConfigId[w]].status # "error"

====
